---- MODULE Spec2Model ----
(***************************************************************************)
(* Model of server.go (src/num.go, lines 16-158): the in-memory location   *)
(* tracker.  Three handlers run as concurrent tasks against two shared     *)
(* structures:                                                             *)
(*   store   (map phone -> []Location) guarded by stMutex (sync.RWMutex)   *)
(*   clients (map *websocket.Conn -> bool) guarded by clientsMu            *)
(* Slices are modelled as Go implements them: a header (array, offset,     *)
(* length) over a backing array on the heap, so that aliasing between the  *)
(* map's slice and the slice a reader took out of it is part of the model. *)
(***************************************************************************)
EXTENDS Integers, Sequences, FiniteSets, TLC

\* ---------------------------------------------------------------- constants
\* num.go:95-96, the retention bound of a phone's history
RetentionBound == 200

\* ------------------------------------------------------------------- bounds
\* number of POST /report requests the server receives
MaxReports == 2

\* the tasks serving POST /report (net/http runs one per client connection,
\* each serving its connection's requests one after the other)
Reporters == {"r1", "r2"}
\* the GET /get/{phone} requests (one task each)
Getters == {"g1"}
\* the websocket connections (one wsHandler task each)
Conns == {"c1", "c2"}
NoConn == "none"

\* phone values a report can carry ("" is what Decode leaves when the key is
\* missing or empty) and the phones a GET route can name (mux needs a
\* non-empty segment; no report is ever made for "B")
Identities == {"", "A"}
GetIdentities == {"A", "B"}
\* values of the request's Date header ("" = header absent)
Dates == {"", "d1"}
\* values of the body's "when" key ("" = key absent)
Whens == {"", "t1"}
\* the clock advances this many half seconds at most
MaxClock == 2

\* histories the server can hold when the modelled requests arrive: none, or
\* phone "A" with this many earlier samples
PreLens == {0, RetentionBound - 1, RetentionBound}

VARIABLES
  heap,       \* backing arrays: array id -> sequence of Location cells
  store,      \* num.go:47  map phone -> slice header
  stMutex,    \* num.go:48  set of tasks holding the write lock
  clients,    \* num.go:51  set of registered connections
  clientsMu,  \* num.go:52  set of tasks holding the mutex
  nreq,       \* number of POST /report requests received so far
  accepted,   \* per phone, the samples of the reports that were decoded
  rpc,        \* reportHandler: position of each report task
  req,        \* reportHandler: the request each task serves
  loc,        \* reportHandler: local loc (num.go:82)
  tmp,        \* reportHandler: value of append(...) before it is assigned
  visited,    \* broadcast: connections the range loop has produced
  cur,        \* broadcast: connection of the WriteJSON in progress
  resp,       \* reportHandler: status written to the response
  gpc,        \* getHandler: position of each get task
  gphone,     \* getHandler: phone (num.go:109)
  locs,       \* getHandler: local locs (num.go:112), a slice header
  result,     \* getHandler: the locations encoded into the response
  wpc,        \* wsHandler: position of each connection's task
  peerUp,     \* the remote end of each connection is still there
  closed,     \* conn.Close() has been called on the connection
  received,   \* per connection, the samples WriteJSON delivered
  \* history variables (record what happened; no action reads them)
  applied,    \* per phone, the samples assigned into the store, in order
  bcastLog,   \* samples in the order their broadcast calls took clientsMu
  bcDone,     \* samples whose broadcast call has returned
  regAt,      \* per connection, Len(bcastLog) when it was registered
  preReg,     \* per connection, bcDone when it was registered
  bcStart,    \* per report task, clients when its broadcast took the mutex
  failed,     \* per report task, connections whose WriteJSON failed
  nAtRead,    \* per get task, Len(applied[phone]) when it read the store
  pre,        \* number of samples phone "A" had before the modelled requests
  spare,      \* spare cells the runtime's append() allocates
  clock,      \* the server's clock, in half seconds
  reqs,       \* the requests the reporters of this run can send
  arrived,    \* the n-th request received and the clock when it was decoded
  deleted     \* per connection, the paths that ran delete(clients, conn)

vars == <<heap, store, stMutex, clients, clientsMu, rpc, req, loc, tmp,
          visited, cur, resp, gpc, gphone, locs, result, wpc, peerUp, closed,
          received, applied, bcastLog, bcDone, regAt, preReg, bcStart, failed,
          nAtRead, pre, spare, nreq, accepted, clock, reqs, arrived, deleted>>

\* ------------------------------------------------------------------ helpers
Min(a, b) == IF a < b THEN a ELSE b
Range(s) == {s[i] : i \in 1..Len(s)}
LastN(n, s) == SubSeq(s, Len(s) - Min(n, Len(s)) + 1, Len(s))

\* Location (num.go:36-43): phone, the payload (lat stands for the fields the
\* server only passes through) and when
Location(p, l, w) == [phone |-> p, lat |-> l, when |-> w]
ZeroLoc == Location("", 0, "")
Zeros(n) == [i \in 1..n |-> ZeroLoc]

\* the k-th sample of a history that was there before the modelled requests
PreSample(k) == Location("A", 0 - k, "d0")

\* --------------------------------------------------------------- Go slices
NilSlice == [arr |-> 0, off |-> 0, len |-> 0]
SliceCap(hp, h) == Len(hp[h.arr]) - h.off
\* the elements a slice header denotes
View(hp, h) == SubSeq(hp[h.arr], h.off + 1, h.off + h.len)
\* map read: the zero value (nil slice) for a missing key
Lookup(st, p) == IF p \in DOMAIN st THEN st[p] ELSE NilSlice
FreshArr(hp) == CHOOSE a \in 1..(Cardinality(DOMAIN hp) + 1) : a \notin DOMAIN hp

\* append(s, x): in place when capacity allows, else a new array of capacity
\* newcap holding a copy.  Returns the new heap and the new header.
AppendSlice(hp, h, x, newcap) ==
  IF h.len < SliceCap(hp, h)
  THEN [hp  |-> [hp EXCEPT ![h.arr][h.off + h.len + 1] = x],
        hdr |-> [h EXCEPT !.len = h.len + 1]]
  ELSE LET a == FreshArr(hp)
           cells == View(hp, h) \o <<x>> \o Zeros(newcap - h.len - 1)
       IN [hp  |-> [b \in DOMAIN hp \cup {a} |-> IF b = a THEN cells ELSE hp[b]],
           hdr |-> [arr |-> a, off |-> 0, len |-> h.len + 1]]

\* s[:200] instead of s[len(s)-200:]
TrimSliceHead(hp, h) ==
  [hp  |-> hp,
   hdr |-> IF h.len > RetentionBound
           THEN [arr |-> h.arr, off |-> h.off, len |-> RetentionBound]
           ELSE h]

\* no trim at all
TrimSliceNone(hp, h) == [hp |-> hp, hdr |-> h]

\* the trim done by copying the last 200 elements down to the slice's start
TrimSliceCopy(hp, h) ==
  IF h.len > RetentionBound
  THEN [hp  |-> [hp EXCEPT ![h.arr] =
                   [i \in 1..Len(hp[h.arr]) |->
                      IF i > h.off /\ i <= h.off + RetentionBound
                      THEN hp[h.arr][i + (h.len - RetentionBound)]
                      ELSE hp[h.arr][i]]],
        hdr |-> [arr |-> h.arr, off |-> h.off, len |-> RetentionBound]]
  ELSE [hp |-> hp, hdr |-> h]

\* num.go:95-97: s[len(s)-200:] when len(s) > 200, a re-slice of the same
\* array (no cell of the heap is written).  Returns the heap and the header.
TrimSlice(hp, h) ==
  [hp  |-> hp,
   hdr |-> IF h.len > RetentionBound
           THEN [arr |-> h.arr, off |-> h.off + (h.len - RetentionBound),
                 len |-> RetentionBound]
           ELSE h]

\* the spare cells the runtime's append() leaves when it reallocates: the
\* growth rule is the runtime's, fixed for a run; with none every append
\* reallocates, with one some appends find room in place
Spares == {0, 1}

\* arrays no slice header refers to any more are collected
Collect(hp, roots) == [a \in {0} \cup {h.arr : h \in roots} |-> hp[a]]

\* an assignment that leaves the map with the one entry
MapPutOnly(st, p, h) == [q \in {p} |-> h]

\* map assignment st[p] = h
MapPut(st, p, h) == [q \in DOMAIN st \cup {p} |-> IF q = p THEN h ELSE st[q]]

\* -------------------------------------------------------------------- Init
\* a POST /report request: body parseable or not, the body's phone and when
\* keys, the Date header
Requests ==
  {[ok |-> FALSE, phone |-> "", when |-> "", date |-> ""]} \cup
  [ok : {TRUE}, phone : Identities, when : Whens, date : Dates]
\* the requests of a reporter that sends no timestamp of its own (client.go
\* sets neither the body's "when" nor a Date header)
PlainRequests == {r \in Requests : r.when = "" /\ r.date = ""}
\* the well-formed reports of phone "A"
StampedRequests == {r \in Requests : r.ok /\ r.phone = "A"}
\* the report client.go sends for phone "A"
ClientRequests == PlainRequests \cap StampedRequests
NoRequest == [ok |-> FALSE, phone |-> "", when |-> "", date |-> "none"]

Init ==
  /\ \E n \in PreLens :
       /\ heap = IF n = 0 THEN [a \in {0} |-> <<>>]
                 ELSE [a \in {0, 1} |->
                        IF a = 0 THEN <<>> ELSE [i \in 1..n |-> PreSample(i)]]
       /\ store = IF n = 0 THEN [p \in {} |-> NilSlice]
                  ELSE [p \in {"A"} |-> [arr |-> 1, off |-> 0, len |-> n]]
       /\ pre = n
  /\ applied = [p \in Identities \cup GetIdentities |-> <<>>]
  /\ spare \in Spares
  /\ stMutex = {}
  /\ clients = {}
  /\ clientsMu = {}
  /\ nreq = 0
  /\ accepted = [p \in Identities |-> {}]
  /\ rpc = [t \in Reporters |-> "idle"]
  /\ req = [t \in Reporters |-> NoRequest]
  /\ loc = [t \in Reporters |-> ZeroLoc]
  /\ tmp = [t \in Reporters |-> NilSlice]
  /\ visited = [t \in Reporters |-> {}]
  /\ cur = [t \in Reporters |-> NoConn]
  /\ resp = [t \in Reporters |-> "none"]
  /\ gpc = [g \in Getters |-> "get"]
  /\ gphone = [g \in Getters |-> ""]
  /\ locs = [g \in Getters |-> NilSlice]
  /\ result = [g \in Getters |-> <<>>]
  /\ wpc = [c \in Conns |-> "idle"]
  /\ peerUp = [c \in Conns |-> TRUE]
  /\ closed = [c \in Conns |-> FALSE]
  /\ received = [c \in Conns |-> <<>>]
  /\ bcastLog = <<>>
  /\ bcDone = {}
  /\ regAt = [c \in Conns |-> 0]
  /\ preReg = [c \in Conns |-> {}]
  /\ bcStart = [t \in Reporters |-> {}]
  /\ failed = [t \in Reporters |-> {}]
  /\ nAtRead = [g \in Getters |-> 0]
  /\ clock = 0
  /\ reqs \in {PlainRequests, StampedRequests, ClientRequests}
  /\ arrived = <<>>
  /\ deleted = [c \in Conns |-> {}]

\* slice headers some task or the map still holds
Roots(st, tm, lc) ==
  {st[p] : p \in DOMAIN st} \cup {tm[t] : t \in Reporters} \cup {lc[g] : g \in Getters}

\* ----------------------------------------------------------- reportHandler
\* num.go:156-158: time.Now().Format(time.RFC3339), the clock's value as a
\* string with the resolution of a second
NowISO(c) == "T" \o ToString(c \div 2)

\* a When that is left empty when the request has no Date header
WhenOfNoDefault(r, c) == r.date

\* num.go:87-90
WhenOf(r, c) == IF r.date # "" THEN r.date ELSE NowISO(c)

\* a Decode that forgets to return after answering 400
DecodeNoReturn(t) ==
  /\ rpc[t] = "idle"
  /\ nreq < MaxReports
  /\ nreq' = nreq + 1
  /\ \E r \in reqs :
       /\ arrived' = Append(arrived, [req |-> r, at |-> clock])
       /\ req' = [req EXCEPT ![t] = r]
       /\ loc' = [loc EXCEPT ![t] =
                    IF r.ok THEN Location(r.phone, nreq', WhenOf(r, clock))
                    ELSE Location("", 0, WhenOf(r, clock))]
       /\ accepted' = [accepted EXCEPT ![r.phone] = @ \cup {loc'[t]}]
       /\ rpc' = [rpc EXCEPT ![t] = "stlock"]
       /\ resp' = [resp EXCEPT ![t] = IF r.ok THEN "none" ELSE "400"]
  /\ UNCHANGED <<heap, store, stMutex, clients, clientsMu, tmp, visited, cur,
                 gpc, gphone, locs, result, wpc, peerUp, closed, received,
                 applied, bcastLog, bcDone, regAt, preReg, bcStart, failed,
                 nAtRead, pre, spare, clock, reqs, deleted>>

\* num.go:82-90: a request arrives and its body is decoded; 400 and return
\* when it does not parse.  The payload of the n-th request is n.
Decode(t) ==
  /\ rpc[t] = "idle"
  /\ nreq < MaxReports
  /\ nreq' = nreq + 1
  /\ \E r \in reqs :
       /\ arrived' = Append(arrived, [req |-> r, at |-> clock])
       /\ req' = [req EXCEPT ![t] = r]
       /\ IF r.ok
          THEN /\ loc' = [loc EXCEPT ![t] = Location(r.phone, nreq', WhenOf(r, clock))]
               /\ accepted' = [accepted EXCEPT ![r.phone] = @ \cup {loc'[t]}]
               /\ rpc' = [rpc EXCEPT ![t] = "stlock"]
               /\ resp' = [resp EXCEPT ![t] = "none"]
          ELSE /\ resp' = [resp EXCEPT ![t] = "400"]
               /\ rpc' = rpc
               /\ UNCHANGED <<loc, accepted>>
  /\ UNCHANGED <<heap, store, stMutex, clients, clientsMu, tmp, visited, cur,
                 gpc, gphone, locs, result, wpc, peerUp, closed, received,
                 applied, bcastLog, bcDone, regAt, preReg, bcStart, failed,
                 nAtRead, pre, spare, clock, reqs, deleted>>

\* a Lock that lets everybody in
StCanLockAlways(t) == TRUE

\* sync.RWMutex.Lock: no writer inside (readers take and release the lock
\* within GetRead, so none is inside between two steps)
StCanLock(t) == stMutex = {}

\* num.go:93-94: Lock, then the right-hand side append(store[loc.Phone], loc).
\* (Taking the lock and the first statement under it are one step: the lock
\* holder's steps are visible to others only through the lock.)
StAppend(t) ==
  /\ rpc[t] = "stlock"
  /\ StCanLock(t)
  /\ stMutex' = stMutex \cup {t}
  /\ LET h == Lookup(store, loc[t].phone)
         r == AppendSlice(heap, h, loc[t], h.len + 1 + spare)
     IN /\ heap' = r.hp
        /\ tmp' = [tmp EXCEPT ![t] = r.hdr]
  /\ rpc' = [rpc EXCEPT ![t] = "assign"]
  /\ UNCHANGED <<store, clients, clientsMu, req, loc, visited, cur,
                 resp, gpc, gphone, locs, result, wpc, peerUp, closed, received,
                 applied, bcastLog, bcDone, regAt, preReg, bcStart, failed,
                 nAtRead, pre, spare, nreq, accepted,
                 clock, reqs, arrived, deleted>>

\* num.go:94, the assignment store[loc.Phone] = ...
StAssign(t) ==
  /\ rpc[t] = "assign"
  /\ store' = MapPut(store, loc[t].phone, tmp[t])
  /\ tmp' = [tmp EXCEPT ![t] = NilSlice]
  /\ heap' = Collect(heap, Roots(store', tmp', locs))
  /\ applied' = [applied EXCEPT ![loc[t].phone] = Append(@, loc[t])]
  /\ rpc' = [rpc EXCEPT ![t] = "trim"]
  /\ UNCHANGED <<stMutex, clients, clientsMu, req, loc, visited, cur,
                 resp, gpc, gphone, locs, result, wpc, peerUp, closed, received,
                 bcastLog, bcDone, regAt, preReg, bcStart, failed,
                 nAtRead, pre, spare, nreq, accepted,
                 clock, reqs, arrived, deleted>>

\* a critical section that is left without Unlock
StTrimNoUnlock(t) ==
  /\ rpc[t] = "trim"
  /\ LET r == TrimSlice(heap, Lookup(store, loc[t].phone))
     IN /\ store' = MapPut(store, loc[t].phone, r.hdr)
        /\ heap' = r.hp
  /\ rpc' = [rpc EXCEPT ![t] = "bclock"]
  /\ UNCHANGED <<stMutex, clients, clientsMu, req, loc, tmp, visited, cur,
                 resp, gpc, gphone, locs, result, wpc, peerUp, closed, received,
                 applied, bcastLog, bcDone, regAt, preReg, bcStart, failed,
                 nAtRead, pre, spare, nreq, accepted,
                 clock, reqs, arrived, deleted>>

\* num.go:95-98: the trim, then Unlock
StTrim(t) ==
  /\ rpc[t] = "trim"
  /\ LET r == TrimSlice(heap, Lookup(store, loc[t].phone))
     IN /\ store' = MapPut(store, loc[t].phone, r.hdr)
        /\ heap' = r.hp
  /\ stMutex' = stMutex \ {t}
  /\ rpc' = [rpc EXCEPT ![t] = "bclock"]
  /\ UNCHANGED <<clients, clientsMu, req, loc, tmp, visited, cur,
                 resp, gpc, gphone, locs, result, wpc, peerUp, closed, received,
                 applied, bcastLog, bcDone, regAt, preReg, bcStart, failed,
                 nAtRead, pre, spare, nreq, accepted,
                 clock, reqs, arrived, deleted>>

\* num.go:93-98 as one step: the whole critical section.  Its result is that
\* of StAppend, StAssign and StTrim run one after the other by the lock
\* holder, which is how they run whenever StCanLock guards the section.
StoreAll(t) ==
  /\ rpc[t] = "stlock"
  /\ StCanLock(t)
  /\ LET p == loc[t].phone
         h == Lookup(store, p)
         r == AppendSlice(heap, h, loc[t], h.len + 1 + spare)
         st1 == MapPut(store, p, r.hdr)
         hp1 == Collect(r.hp, Roots(st1, tmp, locs))
         q == TrimSlice(hp1, Lookup(st1, p))
     IN /\ store' = MapPut(st1, p, q.hdr)
        /\ heap' = q.hp
  /\ applied' = [applied EXCEPT ![loc[t].phone] = Append(@, loc[t])]
  /\ rpc' = [rpc EXCEPT ![t] = "bclock"]
  /\ UNCHANGED <<stMutex, clients, clientsMu, req, loc, tmp, visited, cur,
                 resp, gpc, gphone, locs, result, wpc, peerUp, closed, received,
                 bcastLog, bcDone, regAt, preReg, bcStart, failed,
                 nAtRead, pre, spare, nreq, accepted,
                 clock, reqs, arrived, deleted>>

\* ---------------------------------------------------------------- broadcast
\* a Lock that lets everybody in
MuCanLockAlways(t) == TRUE

\* sync.Mutex.Lock by a report task or a connection's task: nobody inside
MuCanLock(t) == clientsMu = {}

\* num.go:101 and 145-146: the call, and taking clientsMu
BcLock(t) ==
  /\ rpc[t] = "bclock"
  /\ MuCanLock(t)
  /\ clientsMu' = clientsMu \cup {t}
  /\ visited' = [visited EXCEPT ![t] = {}]
  /\ bcastLog' = Append(bcastLog, loc[t])
  /\ bcStart' = [bcStart EXCEPT ![t] = clients]
  /\ rpc' = [rpc EXCEPT ![t] = "bcloop"]
  /\ UNCHANGED <<heap, store, stMutex, clients, req, loc, tmp, cur,
                 resp, gpc, gphone, locs, result, wpc, peerUp, closed, received,
                 applied, bcDone, regAt, preReg, failed, nAtRead, pre, spare, nreq, accepted,
                 clock, reqs, arrived, deleted>>

\* the entries the range loop of num.go:147 has still to produce: those in
\* the map that it has not produced yet (map order is unspecified)
RangeRest(t) == clients \ visited[t]

\* num.go:147-148: the loop produces a connection and calls WriteJSON on it
BcNext(t) ==
  /\ rpc[t] = "bcloop"
  /\ \E c \in RangeRest(t) : cur' = [cur EXCEPT ![t] = c]
  /\ rpc' = [rpc EXCEPT ![t] = "writing"]
  /\ UNCHANGED <<heap, store, stMutex, clients, clientsMu, req, loc, tmp,
                 visited, resp, gpc, gphone, locs, result, wpc, peerUp, closed,
                 received, applied, bcastLog, bcDone, regAt, preReg, bcStart,
                 failed, nAtRead, pre, spare, nreq, accepted,
                 clock, reqs, arrived, deleted>>

\* num.go:148: WriteJSON returns nil, the sample is on the connection
WriteOk(t) ==
  /\ rpc[t] = "writing"
  /\ ~closed[cur[t]]
  /\ received' = [received EXCEPT ![cur[t]] = Append(@, loc[t])]
  /\ visited' = [visited EXCEPT ![t] = @ \cup {cur[t]}]
  /\ cur' = [cur EXCEPT ![t] = NoConn]
  /\ rpc' = [rpc EXCEPT ![t] = "bcloop"]
  /\ UNCHANGED <<heap, store, stMutex, clients, clientsMu, req, loc, tmp,
                 resp, gpc, gphone, locs, result, wpc, peerUp, closed,
                 applied, bcastLog, bcDone, regAt, preReg, bcStart,
                 failed, nAtRead, pre, spare, nreq, accepted,
                 clock, reqs, arrived, deleted>>

\* a failed send that is reported to the reporter
WriteFailSurfaced(t) ==
  /\ rpc[t] = "writing"
  /\ closed' = [closed EXCEPT ![cur[t]] = TRUE]
  /\ peerUp' = [peerUp EXCEPT ![cur[t]] = FALSE]
  /\ clients' = clients \ {cur[t]}
  /\ visited' = [visited EXCEPT ![t] = @ \cup {cur[t]}]
  /\ failed' = [failed EXCEPT ![t] = @ \cup {cur[t]}]
  /\ deleted' = [deleted EXCEPT ![cur[t]] = @ \cup {"send"}]
  /\ cur' = [cur EXCEPT ![t] = NoConn]
  /\ resp' = [resp EXCEPT ![t] = "500"]
  /\ rpc' = [rpc EXCEPT ![t] = "bcloop"]
  /\ UNCHANGED <<heap, store, stMutex, clientsMu, req, loc, tmp,
                 gpc, gphone, locs, result, wpc, received,
                 applied, bcastLog, bcDone, regAt, preReg, bcStart,
                 nAtRead, pre, spare, nreq, accepted,
                 clock, reqs, arrived>>

\* num.go:148-152: WriteJSON returns an error; close (which ends the remote
\* end's connection, as the Close of WsRemove does) and delete
WriteFail(t) ==
  /\ rpc[t] = "writing"
  /\ closed' = [closed EXCEPT ![cur[t]] = TRUE]
  /\ peerUp' = [peerUp EXCEPT ![cur[t]] = FALSE]
  /\ clients' = clients \ {cur[t]}
  /\ visited' = [visited EXCEPT ![t] = @ \cup {cur[t]}]
  /\ failed' = [failed EXCEPT ![t] = @ \cup {cur[t]}]
  /\ deleted' = [deleted EXCEPT ![cur[t]] = @ \cup {"send"}]
  /\ cur' = [cur EXCEPT ![t] = NoConn]
  /\ rpc' = [rpc EXCEPT ![t] = "bcloop"]
  /\ UNCHANGED <<heap, store, stMutex, clientsMu, req, loc, tmp,
                 resp, gpc, gphone, locs, result, wpc, received,
                 applied, bcastLog, bcDone, regAt, preReg, bcStart,
                 nAtRead, pre, spare, nreq, accepted,
                 clock, reqs, arrived>>

\* a loop that is left at the first failed send
RangeDoneOnError(t) == RangeRest(t) = {} \/ failed[t] # {}

\* the range loop ends when the map has no entry left to produce
RangeDone(t) == RangeRest(t) = {}

\* num.go:146 and 154: the loop is over, the deferred Unlock runs
BcReturn(t) ==
  /\ rpc[t] = "bcloop"
  /\ RangeDone(t)
  /\ clientsMu' = clientsMu \ {t}
  /\ bcDone' = bcDone \cup {loc[t]}
  /\ visited' = [visited EXCEPT ![t] = {}]
  /\ bcStart' = [bcStart EXCEPT ![t] = {}]
  /\ failed' = [failed EXCEPT ![t] = {}]
  /\ rpc' = [rpc EXCEPT ![t] = "respond"]
  /\ UNCHANGED <<heap, store, stMutex, clients, req, loc, tmp, cur,
                 resp, gpc, gphone, locs, result, wpc, peerUp, closed, received,
                 applied, bcastLog, regAt, preReg, nAtRead, pre, spare, nreq, accepted,
                 clock, reqs, arrived, deleted>>

\* a handler that acknowledges as soon as the sample is stored and broadcasts
\* afterwards
RespondEarly(t) ==
  /\ rpc[t] \in {"bclock", "respond"}
  /\ rpc[t] = "bclock" => resp[t] # "200"
  /\ resp' = [resp EXCEPT ![t] = "200"]
  /\ rpc' = [rpc EXCEPT ![t] = IF @ = "respond" THEN "idle" ELSE @]
  /\ UNCHANGED <<heap, store, stMutex, clients, clientsMu, req, loc, tmp,
                 visited, cur, gpc, gphone, locs, result, wpc, peerUp, closed,
                 received, applied, bcastLog, bcDone, regAt, preReg, bcStart,
                 failed, nAtRead, pre, spare, nreq, accepted,
                 clock, reqs, arrived, deleted>>

\* num.go:103-104
Respond(t) ==
  /\ rpc[t] = "respond"
  /\ resp' = [resp EXCEPT ![t] = "200"]
  /\ rpc' = [rpc EXCEPT ![t] = "idle"]
  /\ UNCHANGED <<heap, store, stMutex, clients, clientsMu, req, loc, tmp,
                 visited, cur, gpc, gphone, locs, result, wpc, peerUp, closed,
                 received, applied, bcastLog, bcDone, regAt, preReg, bcStart,
                 failed, nAtRead, pre, spare, nreq, accepted,
                 clock, reqs, arrived, deleted>>

\* --------------------------------------------------------------- getHandler
\* an RLock that lets a reader in beside a writer
StCanRLockAlways(g) == TRUE

\* sync.RWMutex.RLock: no writer inside
StCanRLock(g) == stMutex = {}

\* a read that leaves an entry behind for a phone the map did not have
GetReadCreates(g) ==
  /\ gpc[g] = "get"
  /\ StCanRLock(g)
  /\ \E p \in GetIdentities :
       /\ gphone' = [gphone EXCEPT ![g] = p]
       /\ locs' = [locs EXCEPT ![g] = Lookup(store, p)]
       /\ store' = MapPut(store, p, Lookup(store, p))
       /\ nAtRead' = [nAtRead EXCEPT ![g] = Len(applied[p])]
  /\ gpc' = [gpc EXCEPT ![g] = "encode"]
  /\ UNCHANGED <<heap, stMutex, clients, clientsMu, rpc, req, loc, tmp,
                 visited, cur, resp, result, wpc, peerUp, closed, received,
                 applied, bcastLog, bcDone, regAt, preReg, bcStart, failed,
                 pre, spare, nreq, accepted,
                 clock, reqs, arrived, deleted>>

\* num.go:108-113: RLock, locs := store[phone] (a copy of the slice header,
\* not of the elements), RUnlock
GetRead(g) ==
  /\ gpc[g] = "get"
  /\ StCanRLock(g)
  /\ \E p \in GetIdentities :
       /\ gphone' = [gphone EXCEPT ![g] = p]
       /\ locs' = [locs EXCEPT ![g] = Lookup(store, p)]
       /\ nAtRead' = [nAtRead EXCEPT ![g] = Len(applied[p])]
  /\ gpc' = [gpc EXCEPT ![g] = "encode"]
  /\ UNCHANGED <<heap, store, stMutex, clients, clientsMu, rpc, req, loc, tmp,
                 visited, cur, resp, result, wpc, peerUp, closed, received,
                 applied, bcastLog, bcDone, regAt, preReg, bcStart, failed,
                 pre, spare, nreq, accepted,
                 clock, reqs, arrived, deleted>>

\* num.go:115-116: the elements are read through the header when the
\* response is encoded, outside the lock
GetEncode(g) ==
  /\ gpc[g] = "encode"
  /\ result' = [result EXCEPT ![g] = View(heap, locs[g])]
  /\ locs' = [locs EXCEPT ![g] = NilSlice]
  /\ heap' = Collect(heap, Roots(store, tmp, locs'))
  /\ gpc' = [gpc EXCEPT ![g] = "done"]
  /\ UNCHANGED <<store, stMutex, clients, clientsMu, rpc, req, loc, tmp,
                 visited, cur, resp, gphone, wpc, peerUp, closed, received,
                 applied, bcastLog, bcDone, regAt, preReg, bcStart, failed,
                 nAtRead, pre, spare, nreq, accepted,
                 clock, reqs, arrived, deleted>>

\* ---------------------------------------------------------------- wsHandler
\* num.go:120-124: the upgrade fails, the handler returns
WsUpgradeFail(c) ==
  /\ wpc[c] = "idle"
  /\ wpc' = [wpc EXCEPT ![c] = "done"]
  /\ peerUp' = [peerUp EXCEPT ![c] = FALSE]
  /\ UNCHANGED <<heap, store, stMutex, clients, clientsMu, rpc, req, loc, tmp,
                 visited, cur, resp, gpc, gphone, locs, result, closed,
                 received, applied, bcastLog, bcDone, regAt, preReg, bcStart,
                 failed, nAtRead, pre, spare, nreq, accepted,
                 clock, reqs, arrived, deleted>>

\* a registration that sends the newcomer the latest sample
WsRegisterReplay(c) ==
  /\ wpc[c] = "idle"
  /\ MuCanLock(c)
  /\ clients' = clients \cup {c}
  /\ received' = [received EXCEPT ![c] =
                    IF bcastLog = <<>> THEN @ ELSE <<bcastLog[Len(bcastLog)]>>]
  /\ regAt' = [regAt EXCEPT ![c] = Len(bcastLog)]
  /\ preReg' = [preReg EXCEPT ![c] = bcDone]
  /\ wpc' = [wpc EXCEPT ![c] = "reading"]
  /\ UNCHANGED <<heap, store, stMutex, clientsMu, rpc, req, loc, tmp,
                 visited, cur, resp, gpc, gphone, locs, result, peerUp, closed,
                 applied, bcastLog, bcDone, bcStart,
                 failed, nAtRead, pre, spare, nreq, accepted,
                 clock, reqs, arrived, deleted>>

\* num.go:120 and 127-129: the upgrade succeeds; Lock, clients[conn] = true,
\* Unlock
WsRegister(c) ==
  /\ wpc[c] = "idle"
  /\ MuCanLock(c)
  /\ clients' = clients \cup {c}
  /\ regAt' = [regAt EXCEPT ![c] = Len(bcastLog)]
  /\ preReg' = [preReg EXCEPT ![c] = bcDone]
  /\ wpc' = [wpc EXCEPT ![c] = "reading"]
  /\ UNCHANGED <<heap, store, stMutex, clientsMu, rpc, req, loc, tmp,
                 visited, cur, resp, gpc, gphone, locs, result, peerUp, closed,
                 received, applied, bcastLog, bcDone, bcStart,
                 failed, nAtRead, pre, spare, nreq, accepted,
                 clock, reqs, arrived, deleted>>

\* the viewer goes away (closes the socket, loses the network)
PeerGone(c) ==
  /\ wpc[c] = "reading"
  /\ peerUp[c]
  /\ peerUp' = [peerUp EXCEPT ![c] = FALSE]
  /\ UNCHANGED <<heap, store, stMutex, clients, clientsMu, rpc, req, loc, tmp,
                 visited, cur, resp, gpc, gphone, locs, result, wpc, closed,
                 received, applied, bcastLog, bcDone, regAt, preReg, bcStart,
                 failed, nAtRead, pre, spare, nreq, accepted,
                 clock, reqs, arrived, deleted>>

\* num.go:134: ReadJSON returns an error once the peer is gone or the
\* connection was closed under it (num.go:150)
ReadFails(c) == ~peerUp[c] \/ closed[c]

\* a handler that returns on a read error without deleting its connection
WsRemoveNoDelete(c) ==
  /\ wpc[c] = "reading"
  /\ ReadFails(c)
  /\ closed' = [closed EXCEPT ![c] = TRUE]
  /\ peerUp' = [peerUp EXCEPT ![c] = FALSE]
  /\ wpc' = [wpc EXCEPT ![c] = "done"]
  /\ UNCHANGED <<heap, store, stMutex, clients, clientsMu, rpc, req, loc, tmp,
                 visited, cur, resp, gpc, gphone, locs, result,
                 received, applied, bcastLog, bcDone, regAt, preReg, bcStart,
                 failed, nAtRead, pre, spare, nreq, accepted,
                 clock, reqs, arrived, deleted>>

\* a removal that flips the connection's membership instead of clearing it
WsRemoveToggle(c) ==
  /\ wpc[c] = "reading"
  /\ ReadFails(c)
  /\ MuCanLock(c)
  /\ clients' = IF c \in clients THEN clients \ {c} ELSE clients \cup {c}
  /\ closed' = [closed EXCEPT ![c] = TRUE]
  /\ peerUp' = [peerUp EXCEPT ![c] = FALSE]
  /\ deleted' = [deleted EXCEPT ![c] = @ \cup {"read"}]
  /\ wpc' = [wpc EXCEPT ![c] = "done"]
  /\ UNCHANGED <<heap, store, stMutex, clientsMu, rpc, req, loc, tmp,
                 visited, cur, resp, gpc, gphone, locs, result,
                 received, applied, bcastLog, bcDone, regAt, preReg, bcStart,
                 failed, nAtRead, pre, spare, nreq, accepted,
                 clock, reqs, arrived>>

\* num.go:134-139 and 125: ReadJSON fails; Lock, delete, Unlock; break; the
\* deferred Close
WsRemove(c) ==
  /\ wpc[c] = "reading"
  /\ ReadFails(c)
  /\ MuCanLock(c)
  /\ clients' = clients \ {c}
  /\ closed' = [closed EXCEPT ![c] = TRUE]
  /\ peerUp' = [peerUp EXCEPT ![c] = FALSE]
  /\ deleted' = [deleted EXCEPT ![c] = @ \cup {"read"}]
  /\ wpc' = [wpc EXCEPT ![c] = "done"]
  /\ UNCHANGED <<heap, store, stMutex, clientsMu, rpc, req, loc, tmp,
                 visited, cur, resp, gpc, gphone, locs, result,
                 received, applied, bcastLog, bcDone, regAt, preReg, bcStart,
                 failed, nAtRead, pre, spare, nreq, accepted,
                 clock, reqs, arrived>>

\* ------------------------------------------------------------------ the clock
\* half a second passes
Tick ==
  /\ clock < MaxClock
  /\ clock' = clock + 1
  /\ UNCHANGED <<heap, store, stMutex, clients, clientsMu, rpc, req, loc, tmp,
                 visited, cur, resp, gpc, gphone, locs, result, wpc, peerUp,
                 closed, received, applied, bcastLog, bcDone, regAt, preReg,
                 bcStart, failed, nAtRead, pre, spare, nreq, accepted,
                 reqs, arrived, deleted>>

\* --------------------------------------------------------------------- Next
\* the steps of reportHandler up to the call of broadcast
ReportStore(t) == Decode(t) \/ StAppend(t) \/ StAssign(t) \/ StTrim(t)
\* broadcast's Lock and return, and the response
ReportCast(t) == BcLock(t) \/ BcReturn(t) \/ Respond(t)
\* the body of broadcast's loop
ReportSend(t) == BcNext(t) \/ WriteOk(t) \/ WriteFail(t)
GetStep(g) == GetRead(g) \/ GetEncode(g)
WsStep(c) == WsUpgradeFail(c) \/ WsRegister(c) \/ PeerGone(c) \/ WsRemove(c)

\* the same with the critical section of num.go:93-98 taken as one step
ReportStored(t) == Decode(t) \/ StoreAll(t)

Next ==
  \/ Tick
  \/ \E t \in Reporters : ReportStore(t) \/ ReportCast(t) \/ ReportSend(t)
  \/ \E g \in Getters : GetStep(g)
  \/ \E c \in Conns : WsStep(c)

Spec == Init /\ [][Next]_vars

\* reports and gets while no viewer connects
NextStore ==
  \/ \E t \in Reporters : ReportStore(t) \/ ReportCast(t)
  \/ \E g \in Getters : GetStep(g)

InitStore == Init /\ reqs = PlainRequests

SpecStore == InitStore /\ [][NextStore]_vars

\* reports and viewers, on a server that starts with an empty store (the
\* layout of the store's arrays plays no part in broadcast)
InitCast == Init /\ pre = 0 /\ spare = 0 /\ reqs = PlainRequests

NextCast ==
  \/ \E t \in Reporters : ReportStored(t) \/ ReportCast(t) \/ ReportSend(t)
  \/ \E c \in Conns : WsStep(c)

SpecCast == InitCast /\ [][NextCast]_vars

\* one reporter (one client connection, hence one task) whose reports carry
\* timestamps, and viewers that stay, while the clock runs, on a server that
\* starts with an empty store
InitWhen == Init /\ pre = 0 /\ spare = 0 /\ reqs = StampedRequests

NextWhen ==
  \/ Tick
  \/ \E t \in {"r1"} : ReportStored(t) \/ ReportCast(t) \/ ReportSend(t)
  \/ \E c \in Conns : WsRegister(c)

SpecWhen == InitWhen /\ [][NextWhen]_vars

\* reports, gets and one viewer, every step of every handler on its own, on a
\* server that starts with an empty store
InitViewer == Init /\ pre = 0 /\ spare = 0 /\ reqs = PlainRequests

NextViewer ==
  \/ \E t \in Reporters : ReportStore(t) \/ ReportCast(t) \/ ReportSend(t)
  \/ \E g \in Getters : GetStep(g)
  \/ \E c \in {"c1"} : WsStep(c)

SpecViewer == InitViewer /\ [][NextViewer]_vars

\* the same with the reports client.go sends, under fair scheduling
InitLive == Init /\ pre = 0 /\ spare = 0 /\ reqs = ClientRequests

\* what a report task does once its request is decoded
ReportRun(t) ==
  \/ StAppend(t) \/ StAssign(t) \/ StTrim(t)
  \/ BcLock(t) \/ BcNext(t) \/ WriteOk(t) \/ WriteFail(t) \/ BcReturn(t)
  \/ Respond(t)
\* what a connection's task does (its peer's going away is not the server's)
WsRun(c) == WsUpgradeFail(c) \/ WsRegister(c) \/ WsRemove(c)

\* The Go scheduler runs every runnable goroutine, sync.Mutex and
\* sync.RWMutex hand the lock to every waiter in the end (starvation mode),
\* and every WriteJSON returns, with nil or with an error.  Requests still
\* to come (Decode) and peers going away (PeerGone) are under no obligation.
SpecLive ==
  /\ InitLive
  /\ [][NextViewer]_vars
  /\ \A t \in Reporters : WF_vars(ReportRun(t))
  /\ \A g \in Getters : WF_vars(GetStep(g))
  /\ \A c \in {"c1"} : WF_vars(WsRun(c))

\* ================================================================== claims
\* the samples phone p had before the modelled requests
Prefill(p) == IF p = "A" THEN [i \in 1..pre |-> PreSample(i)] ELSE <<>>
\* every sample ever assigned into p's history, in the order of assignment,
\* and its first n modelled ones
AppliedSeq(p) == Prefill(p) \o applied[p]
AppliedUpTo(p, n) == Prefill(p) \o SubSeq(applied[p], 1, n)
\* p's history as the map holds it
History(p) == View(heap, Lookup(store, p))
\* the orders in which the elements of a set can be put
Orders(S) ==
  {f \in [1..Cardinality(S) -> S] :
     \A i, j \in 1..Cardinality(S) : i # j => f[i] # f[j]}
\* no report task is between Decode and the end of num.go:93-98
StoreQuiet == \A t \in Reporters : rpc[t] \notin {"stlock", "assign", "trim"}

\* C1: whenever no report task is inside the critical section of
\* num.go:93-98, every phone's history holds at most 200 samples, however
\* the report requests interleaved.
C1_HistoryBounded ==
  stMutex = {} => \A p \in DOMAIN store : store[p].len <= RetentionBound

\* C1 witness: a history that is full after samples were evicted from it
C1_Witness ==
  /\ stMutex = {}
  /\ \E p \in DOMAIN store :
       /\ store[p].len = RetentionBound
       /\ Len(AppliedSeq(p)) > RetentionBound

\* C2: a finished Get of phone p returns exactly the last min(N, 200) of the
\* N samples appended to p before it read the store, in the order they were
\* appended.
C2_GetReturnsLastSamples ==
  \A g \in Getters :
    gpc[g] = "done" =>
      result[g] = LastN(RetentionBound, AppliedUpTo(gphone[g], nAtRead[g]))

\* C2 witness: a Get that returned 200 samples of more than 200 appended, the
\* newest of them from a modelled request
C2_Witness ==
  \E g \in Getters :
    /\ gpc[g] = "done"
    /\ Len(AppliedUpTo(gphone[g], nAtRead[g])) > RetentionBound
    /\ Len(result[g]) = RetentionBound
    /\ result[g][RetentionBound].lat > 0
    /\ result[g][1] = PreSample(Len(AppliedUpTo(gphone[g], nAtRead[g])) - RetentionBound + 1)

\* C8: once the accepted reports have all been stored, each phone's history
\* is the last min(K, 200) samples of some serial order of all its K appends
\* (the earlier samples first, then the modelled reports in some order).
C8_NoLostAppend ==
  StoreQuiet =>
    \A p \in Identities :
      \E s \in Orders(accepted[p]) :
        History(p) = LastN(RetentionBound, Prefill(p) \o s)

\* C8 witness: two reports for one phone whose appends were applied in the
\* opposite order of their arrival, with eviction
C8_Witness ==
  /\ StoreQuiet
  /\ Len(AppliedSeq("A")) > RetentionBound
  /\ Len(applied["A"]) = 2
  /\ applied["A"][1].lat > applied["A"][2].lat

\* C10: the slice a Get takes is the phone's history at an instant between
\* appends (all of the appends applied so far, trimmed), and from then until
\* the response is encoded its length and elements stay what they were,
\* whatever is appended or evicted meanwhile; the response holds them.
C10_GetIsSnapshot ==
  [][\A g \in Getters :
       /\ (gpc[g] = "get" /\ gpc'[g] = "encode") =>
            View(heap', locs'[g]) = LastN(RetentionBound, AppliedSeq(gphone'[g]))
       /\ (gpc[g] = "encode" /\ gpc'[g] = "encode") =>
            View(heap', locs'[g]) = View(heap, locs[g])
       /\ (gpc[g] = "encode" /\ gpc'[g] = "done") =>
            result'[g] = View(heap, locs[g])]_vars

\* C10 witness: a Get between its read and its encoding whose slice shares
\* the backing array with the store's slice, after the store has moved on
C10_Witness ==
  \E g \in Getters :
    /\ gpc[g] = "encode"
    /\ gphone[g] \in DOMAIN store
    /\ locs[g].arr = store[gphone[g]].arr
    /\ locs[g].len = RetentionBound
    /\ Len(applied[gphone[g]]) > nAtRead[g]
    /\ store[gphone[g]].off > locs[g].off

\* the broadcasts that have taken clientsMu and not yet delivered to c
Pending(c) == {t \in clientsMu : c \notin visited[t]}

\* C3: a connection that is registered (no send to it has failed, it has not
\* been removed) has been written exactly the samples broadcast since it was
\* registered, in the order the broadcast calls ran, each once; the sample
\* of a broadcast that is under way is the only one that may still be due.
C3_BroadcastOrder ==
  \A c \in clients :
    received[c] =
      SubSeq(bcastLog, regAt[c] + 1, Len(bcastLog) - Cardinality(Pending(c)))

\* C3 witness: a registered connection that was written two samples, of
\* different phones, the later request's first because its broadcast ran
\* first, while the other connection, registered later, was written one
C3_Witness ==
  \E c \in clients : \E d \in clients :
    /\ Len(received[c]) = 2
    /\ received[c][1].phone # received[c][2].phone
    /\ received[c][1].lat > received[c][2].lat
    /\ regAt[d] = 1
    /\ Len(received[d]) = 1

\* C4: the step in which a WriteJSON fails removes that connection from
\* clients, and when the broadcast returns a send has been attempted on
\* every connection that was registered when it started, and none of those
\* whose send failed is registered.
C4_FailedSendRemoves ==
  [][\A t \in Reporters :
       /\ (rpc[t] = "writing" /\ failed'[t] # failed[t]) =>
            (cur[t] \notin clients' /\ clients' = clients \ {cur[t]})
       /\ (rpc[t] = "bcloop" /\ rpc'[t] = "respond") =>
            (bcStart[t] \subseteq visited[t] /\ failed[t] \cap clients' = {})]_vars

\* C4 witness: a broadcast that has written the sample to one connection
\* after the send to another failed
C4_Witness ==
  \E t \in Reporters : \E c \in Conns :
    /\ rpc[t] = "writing"
    /\ failed[t] # {}
    /\ cur[t] = c
    /\ c \notin failed[t]
    /\ bcStart[t] = failed[t] \cup {c}

\* C5: while a WriteJSON is in progress (it may never return), another
\* report task that has reached broadcast can take clientsMu, a new
\* connection can register and a connection whose ReadJSON failed can be
\* removed.
C5_StallDoesNotBlock ==
  \A t \in Reporters :
    rpc[t] = "writing" =>
      /\ \A u \in Reporters \ {t} : rpc[u] = "bclock" => ENABLED BcLock(u)
      /\ \A c \in Conns : wpc[c] = "idle" => ENABLED WsRegister(c)
      /\ \A c \in Conns : (wpc[c] = "reading" /\ ReadFails(c)) => ENABLED WsRemove(c)

\* C6: a report whose phone is empty or missing is answered 400, no history
\* is kept under the empty phone and no sample with it is broadcast.
C6_EmptyIdentityRejected ==
  /\ "" \notin DOMAIN store
  /\ \A i \in 1..Len(bcastLog) : bcastLog[i].phone # ""
  /\ \A t \in Reporters : (req[t].ok /\ req[t].phone = "") => resp[t] \in {"none", "400"}

\* C7: the step that decodes a body that does not parse answers 400 and
\* leaves the store, its arrays, the set of connections and what has been
\* broadcast as they were; the task is ready for the next report.
C7_MalformedRejected ==
  [][\A t \in Reporters :
       (Decode(t) /\ ~req'[t].ok) =>
         /\ resp'[t] = "400"
         /\ rpc'[t] = "idle"
         /\ store' = store /\ heap' = heap /\ applied' = applied
         /\ clients' = clients /\ bcastLog' = bcastLog /\ received' = received]_vars

\* C7 witness: a rejected body on a server that holds a history and has a
\* viewer, with a later report being served by the same task
C7_Witness ==
  \E t \in Reporters : \E u \in Reporters :
    /\ ~req[u].ok /\ resp[u] = "400" /\ rpc[u] = "idle"
    /\ DOMAIN store # {}
    /\ clients # {}
    /\ rpc[t] = "writing"

\* C9: no connection is written a sample whose broadcast had returned before
\* the connection was registered.
C9_NoReplay ==
  \A c \in Conns : Range(received[c]) \cap preReg[c] = {}

\* C9 witness: a connection registered between two broadcasts that was
\* written the second sample only, next to one that was written both
C9_Witness ==
  \E c, d \in Conns :
    /\ Cardinality(preReg[c]) = 1
    /\ Len(received[c]) = 1
    /\ Len(bcastLog) = 2
    /\ received[d] = bcastLog

\* the samples of the modelled requests that are in some history or were
\* delivered to some viewer
StoredSamples == UNION {{x \in Range(History(p)) : x.lat > 0} : p \in DOMAIN store}
SentSamples == UNION {Range(received[c]) : c \in Conns}
\* the request a sample came with, and the clock when it was decoded
Arrival(x) == arrived[x.lat]

\* C11: a sample whose report carried no timestamp (neither a "when" key nor
\* a Date header) carries, in the history and on every viewer's connection,
\* the server's clock at the moment the report was decoded, as nowISO
\* formats it.
C11_NoTimestampGetsNow ==
  \A x \in StoredSamples \cup SentSamples :
    (Arrival(x).req.when = "" /\ Arrival(x).req.date = "") =>
      x.when = NowISO(Arrival(x).at)

\* C11 witness: a report without timestamp decoded after the clock had moved
\* on to the next second, stored and delivered to a viewer
C11_Witness ==
  \E x \in StoredSamples \cap SentSamples :
    /\ Arrival(x).req.when = "" /\ Arrival(x).req.date = ""
    /\ Arrival(x).at = 2
    /\ x.when = "T1"

\* C12: a sample whose report carried a "when" key carries that value, in the
\* history and on every viewer's connection.
C12_SuppliedWhenKept ==
  \A x \in StoredSamples \cup SentSamples :
    Arrival(x).req.when # "" => x.when = Arrival(x).req.when

\* the place of sample x in the order of the broadcasts
BcIndex(x) == CHOOSE i \in 1..Len(bcastLog) : bcastLog[i] = x
\* connection c is registered and nothing has closed it
Healthy(c) == wpc[c] = "reading" /\ ~closed[c]

\* C13: a sample is broadcast only after it was appended to its history, and
\* a report is acknowledged 200 only after its broadcast has returned: at
\* that point every connection that was registered when the broadcast took
\* the mutex, and has not been closed, has received the sample.
C13_StoreCastAck ==
  /\ \A i \in 1..Len(bcastLog) :
       bcastLog[i] \in Range(applied[bcastLog[i].phone])
  /\ \A t \in Reporters :
       resp[t] = "200" =>
         /\ loc[t] \in Range(applied[loc[t].phone])
         /\ loc[t] \in bcDone
         /\ \A c \in Conns :
              (Healthy(c) /\ regAt[c] < BcIndex(loc[t])) =>
                loc[t] \in Range(received[c])

\* C13 witness: an acknowledged report whose only broadcast delivered the
\* sample to one registered viewer and failed on the other
C13_Witness ==
  \E t \in Reporters : \E c, d \in Conns :
    /\ resp[t] = "200"
    /\ Len(bcastLog) = 1
    /\ Healthy(c) /\ received[c] = <<loc[t]>>
    /\ deleted[d] = {"send"} /\ received[d] = <<>>

\* C14: a report that parsed is never answered anything but 200, and is
\* answered 200 once its handler is through, with the sample appended,
\* however many of the sends of its broadcast failed.
C14_SendFailuresNotSurfaced ==
  \A t \in Reporters :
    req[t].ok =>
      /\ resp[t] = IF rpc[t] = "idle" THEN "200" ELSE "none"
      /\ rpc[t] = "idle" => loc[t] \in Range(History(loc[t].phone))

\* C14 witness: a report acknowledged 200 and stored although the send to
\* each of the two registered viewers failed
C14_Witness ==
  \E t \in Reporters :
    /\ req[t].ok /\ rpc[t] = "idle" /\ resp[t] = "200"
    /\ loc[t] \in Range(History(loc[t].phone))
    /\ Len(bcastLog) = 1
    /\ \A c \in Conns : deleted[c] = {"send"} /\ received[c] = <<>>

\* C15: each of the two removals, the one of a failed send and the one of the
\* connection's own handler, leaves clients without the connection and
\* otherwise as it was, whether or not the other removal ran before; a
\* connection removed by both has its handler finished.
C15_RemoveIdempotent ==
  [][/\ \A c \in Conns :
         deleted'[c] # deleted[c] => clients' = clients \ {c}
     /\ \A c \in Conns :
         deleted'[c] = {"send", "read"} => (wpc'[c] = "done" /\ closed'[c])]_vars

\* C15 witness: a connection deleted by a failed send and then again by its
\* handler, while the other connection is still registered
C15_Witness ==
  \E c, d \in Conns :
    /\ deleted[c] = {"send", "read"}
    /\ d \in clients
    /\ Healthy(d)

WsPending(c) == wpc[c] = "idle" \/ (wpc[c] = "reading" /\ ReadFails(c))

\* C19: no task ever holds stMutex and clientsMu together, and under fair
\* scheduling, every WriteJSON returning, every request completes: every
\* task is again and again without a request in progress (a decoded report
\* is answered, a get is encoded, a connection asking to subscribe is
\* registered or its upgrade refused, a connection whose read fails has its
\* handler return), which is P ~> ~P for "has a request in progress".
C19_NoNestedLocksAndProgress ==
  /\ [](stMutex \cap clientsMu = {})
  /\ \A t \in Reporters : []<>(rpc[t] = "idle")
  /\ \A g \in Getters : []<>(gpc[g] = "done")
  /\ \A c \in {"c1"} : []<>(~WsPending(c))

\* C19 witness: both report tasks have been through both critical sections
\* against each other and the viewer, and everything is answered
C19_Witness ==
  /\ \A t \in Reporters : rpc[t] = "idle" /\ resp[t] = "200"
  /\ \A g \in Getters : gpc[g] = "done"
  /\ wpc["c1"] = "done" /\ deleted["c1"] # {}
  /\ Len(bcastLog) > 1
  /\ Len(received["c1"]) = 1

\* C17: as long as no sample was ever appended for a phone, the store has no
\* entry for it, whatever Gets were made for it, and every Get for it reads
\* the nil slice and returns the empty list.
C17_GetUnknownIsEmpty ==
  \A p \in GetIdentities :
    AppliedSeq(p) = <<>> =>
      /\ p \notin DOMAIN store
      /\ \A g \in Getters :
           (gpc[g] # "get" /\ gphone[g] = p) =>
             /\ locs[g] = NilSlice
             /\ gpc[g] = "done" => result[g] = <<>>

\* C17 witness: a finished Get for phone "B", for which no report was ever
\* made, on a store that holds a history of another phone
C17_Witness ==
  \E g \in Getters :
    /\ gpc[g] = "done"
    /\ gphone[g] = "B"
    /\ result[g] = <<>>
    /\ DOMAIN store # {}
    /\ "B" \notin DOMAIN store

\* the place of sample x in the order of the appends to its phone's history
AppliedIndex(x) == CHOOSE i \in 1..Len(applied[x.phone]) : applied[x.phone][i] = x

\* C18: two samples of one phone (a phone that is set) reach every viewer in
\* the order in which they were appended to the phone's history.
C18_HistoryOrderIsBroadcastOrder ==
  \A c \in Conns : \A i, j \in 1..Len(received[c]) :
    (i < j /\ received[c][i].phone = received[c][j].phone
           /\ received[c][i].phone # "") =>
      AppliedIndex(received[c][i]) < AppliedIndex(received[c][j])

\* C20: a phone's history (and whether the store has an entry for it) changes
\* only in a step of a report for that phone, inside num.go:93-98; clients
\* changes only by a failed send, which takes out the connection written to,
\* or by a step of a connection's own handler; a step of a Get changes
\* neither store nor clients.
C20_Frame ==
  [][/\ \A p \in Identities \cup GetIdentities :
         (History(p)' # History(p) \/ (p \in DOMAIN store') # (p \in DOMAIN store)) =>
           \E t \in Reporters :
             /\ rpc[t] \in {"stlock", "assign", "trim"}
             /\ rpc'[t] # rpc[t]
             /\ loc[t].phone = p
     /\ clients' # clients =>
         \/ \E t \in Reporters :
              rpc[t] = "writing" /\ clients' = clients \ {cur[t]} /\ closed'[cur[t]]
         \/ \E c \in Conns :
              wpc'[c] # wpc[c] /\ clients' \in {clients \cup {c}, clients \ {c}}
     /\ \A t \in Reporters :
         (rpc[t] \in {"stlock", "assign", "trim"} /\ rpc'[t] # rpc[t]) =>
           clients' = clients
     /\ \A g \in Getters :
         gpc'[g] # gpc[g] => (store' = store /\ clients' = clients)]_vars

\* C20 witness: a report for phone "A" has just been stored beside the
\* history of another phone, with a viewer registered and a Get answered
C20_Witness ==
  \E t \in Reporters :
    /\ rpc[t] = "bclock"
    /\ loc[t].phone = "A"
    /\ History("A") = <<loc[t]>>
    /\ History("") # <<>>
    /\ clients # {}
    /\ \E g \in Getters : gpc[g] = "done"

====
